---- MODULE Spec2Model ----
(***************************************************************************)
(* A model of roulette.rs: the bet catalogue (RouletteBetType,             *)
(* RouletteBet), the settlement engine (RouletteEvaluator), and the table  *)
(* (Roulette: spin, history, validate_bets, validate_bet_option,           *)
(* validate_bet_size).                                                     *)
(*                                                                         *)
(* A bet type is a record [kind, v]; v is the sequence of the u8 values    *)
(* the variant carries (one element for the scalar variants).  Rust arrays *)
(* are indexed from 0, TLA+ sequences from 1: At(v, i) reads v[i] of the    *)
(* source.  A bet is [bet_type, wager].                                    *)
(***************************************************************************)
EXTENDS Integers, Sequences, FiniteSets, TLC

VARIABLES
    history,       \* Roulette.history: Vec<u8>
    min_bet_size,  \* Roulette.min_bet_size: u64
    rng_draws,     \* number of values taken from Roulette.rng so far
    returned,      \* the numbers the caller received from successful spins, in call order
    pc,            \* "idle" (table), "call" (a function is about to run), "done" (it returned)
    arg,           \* the argument of the last (or pending) call
    ret            \* what the last call returned

vars == <<history, min_bet_size, rng_draws, returned, pc, arg, ret>>

---------------------------------------------------------------------------
(* Bounds *)

\* calls of spin are explored while the history is shorter than this
MaxSpins == 2
\* longest batch of bets handed to spin
MaxBets == 2
\* largest wager of the settlement inputs
MaxWager == 2
\* largest number used in the Street / Corner / Doubleline validator inputs
MaxNum == 40
\* largest table minimum unit of the stake-check inputs
MaxMinUnit == 4

(* Program constants *)

\* largest value of a u8
U8Max == 255
\* the upper argument of gen_range in spin
GenRangeHigh == 36
\* the wheel's highest pocket
MaxPocket == 36

---------------------------------------------------------------------------
(* Data model *)

At(v, i) == v[i + 1]

RouletteBetType(kind, v) == [kind |-> kind, v |-> v]

RouletteBet(bet_type, wager) == [bet_type |-> bet_type, wager |-> wager]

\* a result borrows its bet: the reference is the bet's position in the batch
RouletteBetResult(bet, win) == [bet |-> bet, win |-> win]

\* u8 subtraction as the release profile computes it (wrapping)
wrapping_sub(a, b) == (a - b + (U8Max + 1)) % (U8Max + 1)

\* u8 subtraction that the debug profile aborts on
underflows(a, b) == a < b

RECURSIVE BitAnd(_, _)
BitAnd(a, b) ==
    IF a = 0 \/ b = 0 THEN 0
    ELSE (IF a % 2 = 1 /\ b % 2 = 1 THEN 1 ELSE 0) + 2 * BitAnd(a \div 2, b \div 2)

---------------------------------------------------------------------------
(* Bet catalogue *)

win_value(bet) ==
    bet.wager * (CASE bet.bet_type.kind = "Straight"   -> 36
                   [] bet.bet_type.kind = "Split"      -> 18
                   [] bet.bet_type.kind = "Street"     -> 12
                   [] bet.bet_type.kind = "Basket"     -> 12
                   [] bet.bet_type.kind = "Topline"    -> 9
                   [] bet.bet_type.kind = "Corner"     -> 9
                   [] bet.bet_type.kind = "Doubleline" -> 6
                   [] bet.bet_type.kind = "Dozens"     -> 3
                   [] bet.bet_type.kind = "Columns"    -> 3
                   [] bet.bet_type.kind = "EvenOdd"    -> 2
                   [] bet.bet_type.kind = "Highlow"    -> 2
                   [] bet.bet_type.kind = "Redblack"   -> 2)

min_bet_for_option(bet_type) ==
    CASE bet_type.kind = "Straight"   -> 1
      [] bet_type.kind = "Split"      -> 1
      [] bet_type.kind = "Street"     -> 1
      [] bet_type.kind = "Basket"     -> 1
      [] bet_type.kind = "Topline"    -> 1
      [] bet_type.kind = "Corner"     -> 1
      [] bet_type.kind = "Doubleline" -> 1
      [] bet_type.kind = "Dozens"     -> 1
      [] bet_type.kind = "Columns"    -> 1
      [] bet_type.kind = "EvenOdd"    -> 1
      [] bet_type.kind = "Highlow"    -> 1
      [] bet_type.kind = "Redblack"   -> 1

---------------------------------------------------------------------------
(* Settlement engine *)

\* a red list with 12 mistyped as 11
get_number_colour_mistyped(number) ==
    CASE number = 0 -> 2
      [] number \in {1, 3, 5, 7, 9, 11, 14, 16, 18, 19, 21, 23, 25, 27, 30, 32, 34, 36} -> 0
      [] OTHER -> 1

get_number_colour(number) ==
    CASE number = 0 -> 2
      [] number \in {1, 3, 5, 7, 9, 12, 14, 16, 18, 19, 21, 23, 25, 27, 30, 32, 34, 36} -> 0
      [] OTHER -> 1

\* v.contains(&winning_number)
contains(v, x) == \E i \in 0..(Len(v) - 1) : At(v, i) = x

\* closures whose Columns test compares with v instead of v % 3
hit_columns_unreduced(bet_type, winning_number, colour) ==
    LET v == At(bet_type.v, 0) IN
    CASE bet_type.kind = "Straight" -> v = winning_number
      [] bet_type.kind = "Dozens" ->
            winning_number > 0 /\ (winning_number - 1) \div 12 = wrapping_sub(v, 1)
      [] bet_type.kind = "Columns" ->
            winning_number > 0 /\ winning_number % 3 = v
      [] bet_type.kind = "EvenOdd" -> (winning_number % 2) = v
      [] bet_type.kind = "Highlow" ->
            \/ (v = 0 /\ winning_number >= 1 /\ winning_number <= 18)
            \/ (v = 1 /\ winning_number >= 19 /\ winning_number <= 36)
      [] bet_type.kind = "Redblack" -> v = colour
      [] bet_type.kind \in {"Split", "Street", "Basket", "Topline", "Corner", "Doubleline"} ->
            \E i \in 0..(Len(bet_type.v) - 1) : At(bet_type.v, i) = winning_number

\* the closure calculate_winnings hands to calc_win for the bet's variant
hit(bet_type, winning_number, colour) ==
    LET v == At(bet_type.v, 0) IN
    CASE bet_type.kind = "Straight" -> v = winning_number
      [] bet_type.kind = "Dozens" ->
            winning_number > 0 /\ (winning_number - 1) \div 12 = wrapping_sub(v, 1)
      [] bet_type.kind = "Columns" ->
            winning_number > 0 /\ winning_number % 3 = v % 3
      [] bet_type.kind = "EvenOdd" -> (winning_number % 2) = v
      [] bet_type.kind = "Highlow" ->
            \/ (v = 0 /\ winning_number >= 1 /\ winning_number <= 18)
            \/ (v = 1 /\ winning_number >= 19 /\ winning_number <= 36)
      [] bet_type.kind = "Redblack" -> v = colour
      [] bet_type.kind \in {"Split", "Street", "Basket", "Topline", "Corner", "Doubleline"} ->
            contains(bet_type.v, winning_number)

\* calc_win(bet, f): the result refers to the bet at position i of the batch
calc_win(bets, i, f) == RouletteBetResult(i, IF f THEN win_value(bets[i]) ELSE 0)

calculate_winnings(winning_number, bets) ==
    LET colour == get_number_colour(winning_number) IN
    [i \in 1..Len(bets) |-> calc_win(bets, i, hit(bets[i].bet_type, winning_number, colour))]

---------------------------------------------------------------------------
(* Bet validator.  validate_bet_option is the value the expression has     *)
(* with wrapping u8 subtraction (release profile); validate_bet_option_    *)
(* overflows tells whether the evaluation, in the source's short-circuit   *)
(* order, reaches a subtraction whose subtrahend exceeds its minuend, on   *)
(* which the debug profile panics.                                         *)

\* the Split expression without its "left edge" alternative
validate_split_no_left_edge(v) ==
    \/ /\ (At(v, 0) # At(v, 1) /\ (At(v, 0) <= 35 /\ At(v, 1) <= 36) /\ At(v, 1) > At(v, 0))
       /\ (At(v, 0) = 0 /\ (At(v, 1) = 1 \/ At(v, 1) = 2 \/ At(v, 1) = 3))
    \/ /\ (At(v, 0) > 0 /\ At(v, 0) <= 33)
       /\ ((At(v, 1) % 3 = 0 /\ wrapping_sub(At(v, 1), At(v, 0)) = 1)
              \/ wrapping_sub(At(v, 1), At(v, 0)) = 3)
    \/ (At(v, 0) >= 34 /\ wrapping_sub(At(v, 1), At(v, 0)) = 1)

\* the Split expression with the range and duplicate check applied to every alternative
validate_split_range_checked(v) ==
    /\ (At(v, 0) # At(v, 1) /\ (At(v, 0) <= 35 /\ At(v, 1) <= 36) /\ At(v, 1) > At(v, 0))
    /\ \/ (At(v, 0) = 0 /\ (At(v, 1) = 1 \/ At(v, 1) = 2 \/ At(v, 1) = 3))
       \/ /\ (At(v, 0) > 0 /\ At(v, 0) <= 33)
          /\ \/ ((At(v, 1) % 3 = 0 /\ wrapping_sub(At(v, 1), At(v, 0)) = 1)
                   \/ wrapping_sub(At(v, 1), At(v, 0)) = 3)
             \/ ((At(v, 0) % 3 = 1 /\ wrapping_sub(At(v, 1), At(v, 0)) = 1)
                   \/ wrapping_sub(At(v, 1), At(v, 0)) = 3)
       \/ (At(v, 0) >= 34 /\ wrapping_sub(At(v, 1), At(v, 0)) = 1)

\* the Split arm: && binds tighter than ||, so the range and duplicate check
\* guards the zero clause only
validate_split(v) ==
    \/ /\ (At(v, 0) # At(v, 1) /\ (At(v, 0) <= 35 /\ At(v, 1) <= 36) /\ At(v, 1) > At(v, 0))
       /\ (At(v, 0) = 0 /\ (At(v, 1) = 1 \/ At(v, 1) = 2 \/ At(v, 1) = 3))
    \/ /\ (At(v, 0) > 0 /\ At(v, 0) <= 33)
       /\ \/ ((At(v, 1) % 3 = 0 /\ wrapping_sub(At(v, 1), At(v, 0)) = 1)
                \/ wrapping_sub(At(v, 1), At(v, 0)) = 3)
          \/ ((At(v, 0) % 3 = 1 /\ wrapping_sub(At(v, 1), At(v, 0)) = 1)
                \/ wrapping_sub(At(v, 1), At(v, 0)) = 3)
    \/ (At(v, 0) >= 34 /\ wrapping_sub(At(v, 1), At(v, 0)) = 1)

\* the Corner arm without the test of the starting column
validate_corner_any_column(v) ==
    /\ At(v, 0) > 0
    /\ wrapping_sub(At(v, 1), At(v, 0)) = 1
    /\ wrapping_sub(At(v, 3), At(v, 2)) = 1
    /\ wrapping_sub(At(v, 3), At(v, 1)) = 3
    /\ wrapping_sub(At(v, 2), At(v, 0)) = 3

\* the Corner arm
validate_corner(v) ==
    /\ At(v, 0) > 0
    /\ (At(v, 0) % 3 # 0)
    /\ wrapping_sub(At(v, 1), At(v, 0)) = 1
    /\ wrapping_sub(At(v, 3), At(v, 2)) = 1
    /\ wrapping_sub(At(v, 3), At(v, 1)) = 3
    /\ wrapping_sub(At(v, 2), At(v, 0)) = 3

\* the Street arm, which the Doubleline arm calls on each half
validate_street(v) ==
    /\ At(v, 0) > 0
    /\ At(v, 0) <= 34
    /\ wrapping_sub(At(v, 0), 1) % 3 = 0
    /\ wrapping_sub(At(v, 1), At(v, 0)) = 1
    /\ wrapping_sub(At(v, 2), At(v, 1)) = 1

validate_bet_option(bet_type) ==
    LET v == bet_type.v IN
    CASE bet_type.kind = "Straight" -> At(v, 0) <= 36
      [] bet_type.kind = "Split" -> validate_split(v)
      [] bet_type.kind = "Street" -> validate_street(v)
      [] bet_type.kind = "Basket" ->
            /\ At(v, 0) = 0
            /\ \/ (At(v, 1) = 1 /\ At(v, 2) = 2)
               \/ (At(v, 1) = 2 /\ At(v, 2) = 3)
      [] bet_type.kind = "Topline" ->
            At(v, 0) = 0 /\ At(v, 1) = 1 /\ At(v, 2) = 2 /\ At(v, 3) = 3
      [] bet_type.kind = "Corner" -> validate_corner(v)
      [] bet_type.kind = "Doubleline" ->
            LET slice1 == SubSeq(v, 1, 3)
                slice2 == SubSeq(v, 4, 6)
            IN  validate_street(slice1) /\ validate_street(slice2)
      [] bet_type.kind = "Dozens" -> At(v, 0) >= 1 /\ At(v, 0) <= 3
      [] bet_type.kind = "Columns" -> At(v, 0) >= 1 /\ At(v, 0) <= 3
      [] bet_type.kind = "EvenOdd" -> At(v, 0) <= 1
      [] bet_type.kind = "Highlow" -> At(v, 0) <= 1
      [] bet_type.kind = "Redblack" -> At(v, 0) <= 1

\* the Street arm's subtractions with v[0] - 1 evaluated before the test v[0] > 0
street_overflows_unguarded(v) ==
    \/ underflows(At(v, 0), 1)
    \/ /\ At(v, 0) > 0 /\ At(v, 0) <= 34 /\ (At(v, 0) - 1) % 3 = 0
       /\ \/ underflows(At(v, 1), At(v, 0))
          \/ (At(v, 1) - At(v, 0) = 1 /\ underflows(At(v, 2), At(v, 1)))

\* the Street arm's subtractions, in order: v[0] - 1 (after v[0] > 0 and
\* v[0] <= 34), v[1] - v[0], v[2] - v[1]
street_overflows(v) ==
    /\ At(v, 0) > 0 /\ At(v, 0) <= 34
    /\ \/ underflows(At(v, 0), 1)
       \/ /\ (At(v, 0) - 1) % 3 = 0
          /\ \/ underflows(At(v, 1), At(v, 0))
             \/ (At(v, 1) - At(v, 0) = 1 /\ underflows(At(v, 2), At(v, 1)))

validate_bet_option_overflows(bet_type) ==
    LET v == bet_type.v IN
    CASE bet_type.kind = "Split" ->
            \* the zero clause subtracts nothing; when it fails, v[1] - v[0] is the
            \* first thing the "1 to 33" clause evaluates after its range test, and
            \* the bottom-edge clause evaluates it whenever v[0] >= 34
            /\ ~ (/\ (At(v, 0) # At(v, 1) /\ (At(v, 0) <= 35 /\ At(v, 1) <= 36) /\ At(v, 1) > At(v, 0))
                  /\ (At(v, 0) = 0 /\ (At(v, 1) = 1 \/ At(v, 1) = 2 \/ At(v, 1) = 3)))
            /\ ((At(v, 0) > 0 /\ At(v, 0) <= 33) \/ At(v, 0) >= 34)
            /\ underflows(At(v, 1), At(v, 0))
      [] bet_type.kind = "Street" -> street_overflows(v)
      [] bet_type.kind = "Corner" ->
            /\ At(v, 0) > 0 /\ (At(v, 0) % 3 # 0)
            /\ \/ underflows(At(v, 1), At(v, 0))
               \/ /\ At(v, 1) - At(v, 0) = 1
                  /\ \/ underflows(At(v, 3), At(v, 2))
                     \/ /\ At(v, 3) - At(v, 2) = 1
                        /\ \/ underflows(At(v, 3), At(v, 1))
                           \/ (At(v, 3) - At(v, 1) = 3 /\ underflows(At(v, 2), At(v, 0)))
      [] bet_type.kind = "Doubleline" ->
            \/ street_overflows(SubSeq(v, 1, 3))
            \/ (validate_street(SubSeq(v, 1, 3)) /\ street_overflows(SubSeq(v, 4, 6)))
      [] OTHER -> FALSE

\* what a call of validate_bet_option can do: return a value, or (debug
\* profile, on an underflow) panic
validate_bet_option_outcomes(bet_type) ==
    IF validate_bet_option_overflows(bet_type)
    THEN {[panicked |-> TRUE, value |-> FALSE],
          [panicked |-> FALSE, value |-> validate_bet_option(bet_type)]}
    ELSE {[panicked |-> FALSE, value |-> validate_bet_option(bet_type)]}

validate_bet_size(m, bet) ==
    BitAnd(min_bet_for_option(bet.bet_type), m) <= bet.wager

InvalidBetOption(bet) == [tag |-> "InvalidBetOption", bet |-> bet]

MinBetNotSatisfied(bet, min) == [tag |-> "MinBetNotSatisfied", bet |-> bet, min |-> min]

\* a loop that stops at the first error
RECURSIVE validate_bets_loop_first_error(_, _, _, _)
validate_bets_loop_first_error(m, bets, i, errors) ==
    IF i > Len(bets) \/ errors # <<>> THEN errors
    ELSE IF ~ validate_bet_option(bets[i].bet_type)
         THEN validate_bets_loop_first_error(m, bets, i + 1, Append(errors, InvalidBetOption(bets[i])))
         ELSE IF ~ validate_bet_size(m, bets[i])
              THEN validate_bets_loop_first_error(m, bets, i + 1,
                       Append(errors, MinBetNotSatisfied(bets[i], m * min_bet_for_option(bets[i].bet_type))))
              ELSE validate_bets_loop_first_error(m, bets, i + 1, errors)

\* the loop of validate_bets from position i on, errors being the list so far
RECURSIVE validate_bets_loop(_, _, _, _)
validate_bets_loop(m, bets, i, errors) ==
    IF i > Len(bets) THEN errors
    ELSE IF ~ validate_bet_option(bets[i].bet_type)
         THEN validate_bets_loop(m, bets, i + 1, Append(errors, InvalidBetOption(bets[i])))
         ELSE IF ~ validate_bet_size(m, bets[i])
              THEN validate_bets_loop(m, bets, i + 1,
                       Append(errors, MinBetNotSatisfied(bets[i], m * min_bet_for_option(bets[i].bet_type))))
              ELSE validate_bets_loop(m, bets, i + 1, errors)

\* Ok(()) is the empty error list
validate_bets(m, bets) == validate_bets_loop(m, bets, 1, <<>>)

\* rng.gen_range(low, high): a value of the half-open range [low, high)
gen_range(low, high) == {n \in low..high : n < high}

---------------------------------------------------------------------------
(* The table: Roulette::new, Roulette::spin, Roulette::history *)

Ok(number, results) == [tag |-> "Ok", number |-> number, results |-> results]

Err(errors) == [tag |-> "Err", errors |-> errors]

\* a push at the wrong end
Vec_push_front(vec, x) == <<x>> \o vec

\* Vec::push
Vec_push(vec, x) == Append(vec, x)

\* history(): the whole vector as a slice
history_slice == history

\* The batches spin is called with.  Array variants are ascending, the
\* documented precondition of validate_bet_option.
SpinBets ==
    { RouletteBet(RouletteBetType("Straight", <<7>>), 1),
      RouletteBet(RouletteBetType("Redblack", <<1>>), 0),
      RouletteBet(RouletteBetType("Split", <<0, 4>>), 0) }

SpinBatches == UNION { [1..n -> SpinBets] : n \in 0..MaxBets }

\* Roulette::new()
New ==
    /\ history = <<>>
    /\ min_bet_size = 1
    /\ rng_draws = 0

Init ==
    /\ New
    /\ returned = <<>>
    /\ pc = "idle"
    /\ arg = <<>>
    /\ ret = [tag |-> "None"]

\* a spin that draws and records the number before it validates the batch
Spin_draw_before_validation(bets) ==
    /\ pc = "idle"
    /\ arg' = bets
    /\ Len(history) < MaxSpins
    /\ LET errors == validate_bets(min_bet_size, bets) IN
       \E number \in gen_range(0, GenRangeHigh) :
          /\ rng_draws' = rng_draws + 1
          /\ history' = Vec_push(history, number)
          /\ IF errors # <<>>
             THEN ret' = Err(errors) /\ UNCHANGED returned
             ELSE /\ ret' = Ok(number, calculate_winnings(number, bets))
                  /\ returned' = Append(returned, number)
    /\ UNCHANGED <<min_bet_size, pc>>

\* r.spin(&bets); on Ok((num, _)) the caller keeps num, as spin_and_history_test does
Spin(bets) ==
    /\ pc = "idle"
    /\ Len(history) < MaxSpins
    /\ arg' = bets
    /\ LET errors == validate_bets(min_bet_size, bets)
           overflow == \E i \in 1..Len(bets) : validate_bet_option_overflows(bets[i].bet_type)
       IN
       \* a subtraction that underflows panics when the build checks overflow
       \* and wraps when it does not
       \E overflow_checks \in (IF overflow THEN BOOLEAN ELSE {FALSE}) :
          IF overflow_checks
          THEN /\ ret' = [tag |-> "Panic"]
               /\ UNCHANGED <<history, rng_draws, returned>>
          ELSE IF errors # <<>>
          THEN /\ ret' = Err(errors)
               /\ UNCHANGED <<history, rng_draws, returned>>
          ELSE \E number \in gen_range(0, GenRangeHigh) :
                  /\ rng_draws' = rng_draws + 1
                  /\ history' = Vec_push(history, number)
                  /\ ret' = Ok(number, calculate_winnings(number, bets))
                  /\ returned' = Append(returned, number)
    /\ UNCHANGED <<min_bet_size, pc>>

Next == \E bets \in SpinBatches : Spin(bets)

Spec == Init /\ [][Next]_vars

---------------------------------------------------------------------------
(* The settlement engine on its own: calculate_winnings and                *)
(* get_number_colour applied to inputs drawn at the start.                 *)

\* the batch of test::rouletteeval_calc_winnings
TestBets ==
    << RouletteBet(RouletteBetType("Straight", <<1>>), 10),
       RouletteBet(RouletteBetType("Split", <<1, 2>>), 10),
       RouletteBet(RouletteBetType("Street", <<1, 2, 3>>), 10),
       RouletteBet(RouletteBetType("Basket", <<0, 1, 2>>), 10),
       RouletteBet(RouletteBetType("Topline", <<0, 1, 2, 3>>), 10),
       RouletteBet(RouletteBetType("Corner", <<1, 2, 4, 5>>), 10),
       RouletteBet(RouletteBetType("Doubleline", <<1, 2, 3, 4, 5, 6>>), 10),
       RouletteBet(RouletteBetType("Dozens", <<1>>), 10),
       RouletteBet(RouletteBetType("Columns", <<1>>), 10),
       RouletteBet(RouletteBetType("EvenOdd", <<0>>), 10),
       RouletteBet(RouletteBetType("Highlow", <<0>>), 10),
       RouletteBet(RouletteBetType("Redblack", <<1>>), 10) >>

\* the pending call settles, for winning number w, one bet of shape bt if
\* the validator finds the shape legal
SettlesOne(w, bt) ==
    /\ validate_bet_option(bt)
    /\ \E wager \in 0..MaxWager :
          arg = [fn |-> "calculate_winnings", winning_number |-> w,
                 bets |-> <<RouletteBet(bt, wager)>>]

\* the inputs: every single legal bet, every batch of up to MaxBets of the
\* test's bets, and the test's batch itself, each with every winning number;
\* every u8 for the colour
InitEval ==
    /\ New
    /\ returned = <<>>
    /\ pc = "call"
    /\ ret = [tag |-> "None"]
    /\ \/ \E w \in 0..MaxPocket :
            \/ \E n \in 0..MaxNum : SettlesOne(w, RouletteBetType("Straight", <<n>>))
            \/ \E a \in 0..MaxNum, d \in 1..3 :
                  SettlesOne(w, RouletteBetType("Split", <<a, a + d>>))
            \/ \E a \in 0..MaxNum : SettlesOne(w, RouletteBetType("Street", <<a, a + 1, a + 2>>))
            \/ \E b \in 1..3 : SettlesOne(w, RouletteBetType("Basket", <<0, b, b + 1>>))
            \/ \E a \in 0..1 : SettlesOne(w, RouletteBetType("Topline", <<a, a + 1, a + 2, a + 3>>))
            \/ \E a \in 0..MaxNum :
                  SettlesOne(w, RouletteBetType("Corner", <<a, a + 1, a + 3, a + 4>>))
            \/ \E a \in 0..MaxNum, b \in 0..MaxNum :
                  SettlesOne(w, RouletteBetType("Doubleline", <<a, a + 1, a + 2, b, b + 1, b + 2>>))
            \/ \E k \in {"Dozens", "Columns", "EvenOdd", "Highlow", "Redblack"}, i \in 0..4 :
                  SettlesOne(w, RouletteBetType(k, <<i>>))
            \/ \E n \in 0..MaxBets :
                 \E bets \in [1..n -> {TestBets[i] : i \in 1..Len(TestBets)}] :
                    arg = [fn |-> "calculate_winnings", winning_number |-> w, bets |-> bets]
            \/ arg = [fn |-> "calculate_winnings", winning_number |-> w, bets |-> TestBets]
       \/ \E n \in 0..U8Max : arg = [fn |-> "get_number_colour", number |-> n]

CalculateWinnings ==
    /\ pc = "call"
    /\ arg.fn = "calculate_winnings"
    /\ ret' = calculate_winnings(arg.winning_number, arg.bets)
    /\ pc' = "done"
    /\ UNCHANGED <<history, min_bet_size, rng_draws, returned, arg>>

GetNumberColour ==
    /\ pc = "call"
    /\ arg.fn = "get_number_colour"
    /\ ret' = get_number_colour(arg.number)
    /\ pc' = "done"
    /\ UNCHANGED <<history, min_bet_size, rng_draws, returned, arg>>

NextEval == CalculateWinnings \/ GetNumberColour

SpecEval == InitEval /\ [][NextEval]_vars

---------------------------------------------------------------------------
(* The validator on its own: validate_bet_option applied to a shape drawn  *)
(* at the start.                                                           *)

\* the offsets of three numbers that are a street or nearly one
NearStreetOffsets == {<<1, 2>>, <<1, 3>>, <<2, 3>>, <<0, 1>>}

Validates(bt) == arg = [fn |-> "validate_bet_option", bet_type |-> bt]

\* the inputs: every u8 for the scalar variants, every pair of u8 for Split,
\* every ascending four numbers up to MaxNum for Corner, streets and near
\* streets for Street and for each half of a Doubleline
InitValidate ==
    /\ New
    /\ returned = <<>>
    /\ pc = "call"
    /\ ret = [tag |-> "None"]
    /\ \/ \E n \in 0..U8Max : Validates(RouletteBetType("Straight", <<n>>))
       \/ \E a \in 0..U8Max, b \in 0..U8Max : Validates(RouletteBetType("Split", <<a, b>>))
       \/ \E a \in 0..MaxNum, d \in NearStreetOffsets :
             Validates(RouletteBetType("Street", <<a, a + d[1], a + d[2]>>))
       \/ \E a \in 0..1, b \in 0..4, c \in 0..4 : Validates(RouletteBetType("Basket", <<a, b, c>>))
       \/ \E a \in 0..1, b \in 1..2, c \in 2..3, d \in 1..5 :
             Validates(RouletteBetType("Topline", <<a, b, c, d>>))
       \/ \E a \in 0..MaxNum : \E b \in a..MaxNum : \E c \in b..MaxNum : \E d \in c..MaxNum :
             Validates(RouletteBetType("Corner", <<a, b, c, d>>))
       \/ \E a \in 0..MaxNum, d \in NearStreetOffsets, b \in 0..MaxNum, e \in NearStreetOffsets :
             Validates(RouletteBetType("Doubleline",
                                       <<a, a + d[1], a + d[2], b, b + e[1], b + e[2]>>))
       \/ \E k \in {"Dozens", "Columns", "EvenOdd", "Highlow", "Redblack"}, i \in 0..U8Max :
             Validates(RouletteBetType(k, <<i>>))

ValidateBetOption ==
    /\ pc = "call"
    /\ arg.fn = "validate_bet_option"
    /\ ret' \in validate_bet_option_outcomes(arg.bet_type)
    /\ pc' = "done"
    /\ UNCHANGED <<history, min_bet_size, rng_draws, returned, arg>>

NextValidate == ValidateBetOption

SpecValidate == InitValidate /\ [][NextValidate]_vars

---------------------------------------------------------------------------
(* The validator on arrays in any order: validate_bet_option applied to a  *)
(* shape whose numbers are pockets, ascending or not.                      *)

\* the inputs: every pair of pockets for Split, every three for Street and
\* Basket, every four for Corner and Topline's neighbourhood; for Doubleline
\* every three pockets as one half, next to a street in either order
InitValidateAny ==
    /\ New
    /\ returned = <<>>
    /\ pc = "call"
    /\ ret = [tag |-> "None"]
    /\ \/ \E a \in 0..MaxPocket, b \in 0..MaxPocket :
             Validates(RouletteBetType("Split", <<a, b>>))
       \/ \E a \in 0..MaxPocket, b \in 0..MaxPocket, c \in 0..MaxPocket :
             \/ Validates(RouletteBetType("Street", <<a, b, c>>))
             \/ Validates(RouletteBetType("Basket", <<a, b, c>>))
             \/ Validates(RouletteBetType("Doubleline", <<a, b, c, 4, 5, 6>>))
             \/ Validates(RouletteBetType("Doubleline", <<a, b, c, 6, 5, 4>>))
             \/ Validates(RouletteBetType("Doubleline", <<1, 2, 3, a, b, c>>))
       \/ \E a \in 0..3, b \in 0..3, c \in 0..3, d \in 0..3 :
             Validates(RouletteBetType("Topline", <<a, b, c, d>>))
       \/ \E a \in 0..MaxPocket, b \in 0..MaxPocket, c \in 0..MaxPocket, d \in 0..MaxPocket :
             Validates(RouletteBetType("Corner", <<a, b, c, d>>))

SpecValidateAny == InitValidateAny /\ [][NextValidate]_vars

---------------------------------------------------------------------------
(* The stake check on its own: validate_bet_size applied, on a table whose *)
(* minimum unit is drawn at the start, to a bet drawn at the start.        *)

\* the inputs: a table with each minimum unit up to MaxMinUnit, one shape of
\* each variant (those of the test's batch), each wager up to MaxMinUnit + 1
InitStake ==
    /\ history = <<>>
    /\ min_bet_size \in 1..MaxMinUnit
    /\ rng_draws = 0
    /\ returned = <<>>
    /\ pc = "call"
    /\ ret = [tag |-> "None"]
    /\ \E i \in 1..Len(TestBets), wager \in 0..(MaxMinUnit + 1) :
          arg = [fn |-> "validate_bet_size",
                 bet |-> RouletteBet(TestBets[i].bet_type, wager)]

ValidateBetSize ==
    /\ pc = "call"
    /\ arg.fn = "validate_bet_size"
    /\ ret' = validate_bet_size(min_bet_size, arg.bet)
    /\ pc' = "done"
    /\ UNCHANGED <<history, min_bet_size, rng_draws, returned, arg>>

NextStake == ValidateBetSize

SpecStake == InitStake /\ [][NextStake]_vars

---------------------------------------------------------------------------
(* Claims about the table *)

\* a bet offends when its shape is illegal or its wager is below the
\* table's minimum unit times the shape's stake factor
Offends(bet) ==
    \/ ~ validate_bet_option(bet.bet_type)
    \/ bet.wager < min_bet_size * min_bet_for_option(bet.bet_type)

OffendingPositions(bets) == {i \in 1..Len(bets) : Offends(bets[i])}

\* C1: all-or-nothing admission: a spin called with a batch that holds an
\* offending bet returns a non-empty error list, leaves history exactly as it
\* was and draws no number from the random source.
C1_AllOrNothing ==
    [][ OffendingPositions(arg') # {}
          => /\ ret'.tag = "Err"
             /\ ret'.errors # <<>>
             /\ history' = history
             /\ rng_draws' = rng_draws ]_vars

\* a spin failed after a successful one, and the history kept its element
C1_Witness ==
    /\ ret.tag = "Err"
    /\ OffendingPositions(arg) # {}
    /\ Len(history) >= 1
    /\ rng_draws = Len(history)

\* C2: history() is the sequence of winning numbers the successful spins
\* returned, in call order: empty at first, one element appended per
\* successful spin (the number it returned), nothing changed or removed by
\* any call, so its length is the number of successful spins.
C2_HistoryIsReturnedNumbers ==
    /\ history_slice = <<>>
    /\ [](history_slice = returned)
    /\ [][ IF ret'.tag = "Ok"
           THEN history' = Append(history, ret'.number)
           ELSE history' = history ]_vars

\* a successful spin, a failed one, and a second successful spin that
\* returned another number
C2_Witness ==
    /\ Len(history) = 2
    /\ history[1] # history[2]
    /\ rng_draws = 2
    /\ ret.tag = "Ok"
    /\ ret.number = history[2]
    /\ returned = history

\* C3: the numbers a successful spin can return are exactly 0..36: each is
\* in range, and each of the 37 pockets, 36 included, can be drawn.
C3_AllPocketsDrawn ==
    ret.tag = "Ok"
      => /\ ret.number \in 0..MaxPocket
         /\ \A n \in 0..MaxPocket : n \in gen_range(0, GenRangeHigh)

\* the error the claim assigns to an offending bet
ErrorOf(bet) ==
    IF ~ validate_bet_option(bet.bet_type)
    THEN [tag |-> "InvalidBetOption", bet |-> bet]
    ELSE [tag |-> "MinBetNotSatisfied", bet |-> bet,
          min |-> min_bet_size * min_bet_for_option(bet.bet_type)]

\* the k-th offending position of a batch, in submission order
NthOffender(bets, k) ==
    CHOOSE i \in OffendingPositions(bets) :
        Cardinality({j \in OffendingPositions(bets) : j <= i}) = k

\* C4: validation aggregates: spin fails iff some bet of the batch offends,
\* and the error list then holds one error per offending bet, in submission
\* order (InvalidBetOption for an illegal shape whatever the wager,
\* MinBetNotSatisfied with the minimum for a legal shape with a low wager);
\* a batch without offending bets, the empty one included, does not fail.
C4_ErrorsAggregate ==
    ret.tag # "None"
      => LET offenders == OffendingPositions(arg) IN
         /\ (ret.tag = "Err") = (offenders # {})
         /\ (ret.tag = "Ok") = (offenders = {})
         /\ ret.tag = "Err"
              => /\ Len(ret.errors) = Cardinality(offenders)
                 /\ \A k \in 1..Len(ret.errors) :
                        ret.errors[k] = ErrorOf(arg[NthOffender(arg, k)])

\* a batch with two offending bets gave both errors, in order
C4_Witness ==
    /\ ret.tag = "Err"
    /\ Len(arg) = 2
    /\ Len(ret.errors) = 2
    /\ ret.errors[1].tag = "InvalidBetOption"
    /\ ret.errors[1].bet.wager = 0
    /\ ret.errors[2].tag = "MinBetNotSatisfied"
    /\ ret.errors[2].min = 1

---------------------------------------------------------------------------
(* Claims about the settlement engine *)

RedNumbers == {1, 3, 5, 7, 9, 12, 14, 16, 18, 19, 21, 23, 25, 27, 30, 32, 34, 36}

Multiplier ==
    [Straight |-> 36, Split |-> 18, Street |-> 12, Basket |-> 12, Topline |-> 9,
     Corner |-> 9, Doubleline |-> 6, Dozens |-> 3, Columns |-> 3, EvenOdd |-> 2,
     Highlow |-> 2, Redblack |-> 2]

ColourOf(w) == IF w = 0 THEN 2 ELSE IF w \in RedNumbers THEN 0 ELSE 1

\* the reference's hit predicate
Hits(bt, w) ==
    LET n == bt.v[1] IN
    IF bt.kind = "Straight" THEN n = w
    ELSE IF bt.kind = "Dozens" THEN w > 0 /\ (w - 1) \div 12 = n - 1
    ELSE IF bt.kind = "Columns" THEN w > 0 /\ w % 3 = n % 3
    ELSE IF bt.kind = "EvenOdd" THEN w % 2 = n
    ELSE IF bt.kind = "Highlow" THEN (n = 0 /\ w \in 1..18) \/ (n = 1 /\ w \in 19..36)
    ELSE IF bt.kind = "Redblack" THEN n = ColourOf(w)
    ELSE w \in {bt.v[i] : i \in 1..Len(bt.v)}

RECURSIVE SumWins(_, _)
SumWins(results, n) == IF n = 0 THEN 0 ELSE results[n].win + SumWins(results, n - 1)

\* C5: settlement matches the reference: for a winning number in 0..36 and a
\* list of legal bets, calculate_winnings returns one result per bet, the
\* i-th referring to the i-th bet, with win = wager x multiplier(kind) if
\* the bet hits and 0 otherwise; for w = 2 and the twelve wager-10 bets of
\* the test the wins are 0,180,120,120,90,90,60,30,0,20,20,20, in total 750.
C5_SettlementMatchesReference ==
    (pc = "done" /\ arg.fn = "calculate_winnings")
      => /\ Len(ret) = Len(arg.bets)
         /\ \A i \in 1..Len(arg.bets) :
               /\ ret[i].bet = i
               /\ ret[i].win = IF Hits(arg.bets[i].bet_type, arg.winning_number)
                               THEN arg.bets[i].wager * Multiplier[arg.bets[i].bet_type.kind]
                               ELSE 0
         /\ (arg.winning_number = 2 /\ arg.bets = TestBets)
               => /\ [i \in 1..Len(ret) |-> ret[i].win]
                        = <<0, 180, 120, 120, 90, 90, 60, 30, 0, 20, 20, 20>>
                  /\ SumWins(ret, Len(ret)) = 750

\* the test's batch was settled for winning number 2
C5_Witness ==
    /\ pc = "done"
    /\ arg.fn = "calculate_winnings"
    /\ arg.winning_number = 2
    /\ arg.bets = TestBets
    /\ ret[2].win = 180
    /\ ret[9].win = 0

\* C10: colour classification partitions the wheel: for n in 0..36 the
\* colour is 0, 1 or 2; it is 2 iff n = 0; it is 0 exactly for the 18 red
\* numbers and 1 exactly for the other 18 non-zero numbers.
C10_ColourPartition ==
    (pc = "done" /\ arg.fn = "get_number_colour" /\ arg.number \in 0..MaxPocket)
      => /\ ret \in {0, 1, 2}
         /\ (ret = 2) = (arg.number = 0)
         /\ (ret = 0) = (arg.number \in RedNumbers)
         /\ (ret = 1) = (arg.number \in (1..MaxPocket) \ RedNumbers)
         /\ Cardinality(RedNumbers) = 18
         /\ Cardinality({n \in 1..MaxPocket : get_number_colour(n) = 0}) = 18
         /\ Cardinality({n \in 1..MaxPocket : get_number_colour(n) = 1}) = 18

\* 12 was classified red
C10_Witness ==
    /\ pc = "done"
    /\ arg.fn = "get_number_colour"
    /\ arg.number = 12
    /\ ret = 0

---------------------------------------------------------------------------
(* Claims about the validator *)

\* the call returned true
Accepted == pc = "done" /\ arg.fn = "validate_bet_option" /\ ~ ret.panicked /\ ret.value

ValidatedKind(kind) ==
    pc = "done" /\ arg.fn = "validate_bet_option" /\ arg.bet_type.kind = kind

C7_SplitLegalAsTested ==
    ValidatedKind("Split")
      => LET a == arg.bet_type.v[1]
             b == arg.bet_type.v[2]
         IN  (a <= b /\ b <= MaxPocket)
               => /\ ~ ret.panicked
                  /\ ret.value =
                       \/ (a = 0 /\ b \in {1, 2, 3})
                       \/ (a >= 1 /\ b = a + 3)
                       \/ (a >= 1 /\ b = a + 1 /\ a % 3 # 0)

\* a horizontal pair that starts in the first column was accepted
C7_Witness ==
    /\ Accepted
    /\ arg.bet_type = RouletteBetType("Split", <<4, 5>>)

\* C8: Doubleline(v) is accepted iff its six numbers are a, a+1, ..., a+5
\* for a row start a (a mod 3 = 1, 1 <= a <= 31): two adjacent lines.
C8_DoublelineAdjacentLines ==
    ValidatedKind("Doubleline")
      => Accepted =
           \E a \in 1..31 :
              /\ a % 3 = 1
              /\ arg.bet_type.v = <<a, a + 1, a + 2, a + 3, a + 4, a + 5>>

\* C9: for ascending a, b, c, d, Corner([a,b,c,d]) is accepted iff a > 0,
\* a mod 3 # 0, b = a+1, c = a+3 and d = a+4.
C9_CornerLegal ==
    ValidatedKind("Corner")
      => LET a == arg.bet_type.v[1]
             b == arg.bet_type.v[2]
             c == arg.bet_type.v[3]
             d == arg.bet_type.v[4]
         IN  /\ ~ ret.panicked
             /\ ret.value = (a > 0 /\ a % 3 # 0 /\ b = a + 1 /\ c = a + 3 /\ d = a + 4)

\* Corner([1,2,4,5]) was accepted
C9_Witness ==
    /\ Accepted
    /\ arg.bet_type = RouletteBetType("Corner", <<1, 2, 4, 5>>)

ArrayKinds == {"Split", "Street", "Basket", "Topline", "Corner", "Doubleline"}

\* C11: every array-valued shape the validator accepts covers real pockets
\* only: each of its numbers lies in 0..36.
C11_AcceptedShapesCoverPockets ==
    (Accepted /\ arg.bet_type.kind \in ArrayKinds)
      => \A i \in 1..Len(arg.bet_type.v) : arg.bet_type.v[i] \in 0..MaxPocket

OutsideKinds == {"Dozens", "Columns", "EvenOdd", "Highlow", "Redblack"}

\* C12: zero beats every outside bet: when the winning number is 0, every
\* legal Dozens, Columns, EvenOdd, Highlow and Redblack bet settles with
\* win = 0.
C12_ZeroBeatsOutsideBets ==
    (pc = "done" /\ arg.fn = "calculate_winnings" /\ arg.winning_number = 0)
      => \A i \in 1..Len(arg.bets) :
            arg.bets[i].bet_type.kind \in OutsideKinds => ret[i].win = 0

---------------------------------------------------------------------------
(* Claims about the stake check *)

\* C13: the stake check agrees with the minimum it reports: for a table
\* minimum unit m in 1..4, every shape and every wager, validate_bet_size
\* accepts the bet iff wager >= m x min_bet_for_option(shape), the value
\* MinBetNotSatisfied carries; with m = 1 a wager of 0 is rejected and a
\* wager >= 1 is accepted.
C13_StakeCheckAgreesWithMinimum ==
    (pc = "done" /\ arg.fn = "validate_bet_size")
      => LET reported == min_bet_size * min_bet_for_option(arg.bet.bet_type) IN
         /\ ret = (arg.bet.wager >= reported)
         /\ min_bet_size = 1 => ret = (arg.bet.wager >= 1)

---------------------------------------------------------------------------
(* Claims about the validator on arrays in any order *)

\* the call evaluated a u8 subtraction whose subtrahend exceeds its minuend
Underflowed ==
    /\ pc = "done"
    /\ arg.fn = "validate_bet_option"
    /\ validate_bet_option_overflows(arg.bet_type)

Ascending(v) == \A i \in 1..(Len(v) - 1) : v[i] <= v[i + 1]

\* C14 as stated: for a shape whose array elements are any values of 0..36,
\* ascending or not, validate_bet_option returns true or false and none of
\* the subtractions it evaluates underflows.
C14_TotalOnAnyOrder ==
    (pc = "done" /\ arg.fn = "validate_bet_option" /\ arg.bet_type.kind \in ArrayKinds)
      => /\ ~ Underflowed
         /\ ~ ret.panicked
         /\ ret.value \in BOOLEAN

\* C14 as amended: for a shape whose array elements are values of 0..36 in
\* ascending order, validate_bet_option returns true or false and none of
\* the subtractions it evaluates underflows; a Split whose numbers descend
\* always underflows.
C14_TotalOnAscending ==
    (pc = "done" /\ arg.fn = "validate_bet_option" /\ arg.bet_type.kind \in ArrayKinds)
      => /\ Ascending(arg.bet_type.v)
            => /\ ~ Underflowed
               /\ ~ ret.panicked
               /\ ret.value \in BOOLEAN
         /\ (arg.bet_type.kind = "Split" /\ arg.bet_type.v[1] > arg.bet_type.v[2])
            => Underflowed

\* an ascending street that starts at the first pocket after zero was
\* validated, its three subtractions evaluated
C14_Witness ==
    /\ Accepted
    /\ arg.bet_type = RouletteBetType("Street", <<1, 2, 3>>)
    /\ ~ Underflowed

====
